---- MODULE Spec2Model ----
(***************************************************************************)
(* Consent-gated analytics tracker (ARVYAMAnalytics, analytics.js), the    *)
(* stringbank loader / translator (i18n/strings.js) and the consent wiring *)
(* of app.js with the ConsentBanner, of arvyam-landing.                    *)
(*                                                                         *)
(* JavaScript runs each synchronous handler to completion, so one call of  *)
(* a tracker method is one action.  An async function is split at its      *)
(* awaits: one action up to the await, one action per resumption.          *)
(***************************************************************************)
EXTENDS Integers, Sequences, FiniteSets, TLC

VARIABLES
  \* ---- ARVYAMAnalytics instance fields -------------------------------
  enabled,          \* this.enabled
  consentChecked,   \* this.consentChecked
  eventQueue,       \* this.eventQueue : Seq of [eventName, properties, id]
  uxTurns,          \* this.uxTurns
  unloadListeners,  \* number of beforeunload listeners registered by init()
  dataLayer,        \* payloads handed to send(), in order (window.dataLayer)
  transport,        \* requests to /api/analytics: [id, via, caught, status]
  beacon,           \* navigator.sendBeacon exists
  \* ---- history of the tracker run ------------------------------------
  trackCalls,       \* number of track() calls made by callers so far
  otherCalls,       \* number of other tracker calls made so far
  everQueued,       \* every entry ever appended to eventQueue, in call order
  discarded,        \* ids dropped from the queue by a denial
  flushed,          \* ids that were in the queue when a grant drained it
  invalidCalls,     \* ids of track() calls with an unregistered name or a
                    \* required property missing
  lastCall,         \* name of the last tracker method or entry point called
  \* ---- i18n/strings.js module state ----------------------------------
  stringbankCache,  \* Map lang -> bundle ("none" when the lang has no entry)
  loadingPromises,  \* Map lang -> load promise, named by its fetch (0: no entry)
  fetches,          \* every fetch issued so far: [lang, status]
  calls,            \* every t() / tSync() / preloadStringbanks() call so far
  \* ---- app.js and the consent banner ---------------------------------
  storedConsent,    \* localStorage['arvyam_consent'] ("none" when absent)
  booted,           \* initializeConsentBanner() has run
  listening,        \* setupGlobalListeners() has registered handleConsentChange
  analyticsEnabled, \* app.js: let analyticsEnabled
  analytics,        \* app.js: let analytics ("null" or "instance")
  pendingImports,   \* enableAnalytics() calls waiting at await import(...)
  saveCalls,        \* number of saveConsent() calls so far
  dispatched,       \* details of the consent-changed events dispatched so far
  callbacks,        \* arguments of the onConsentChange invocations so far
  bannerVisible,    \* the banner's overlay is in the document
  isCustomizeMode,  \* ConsentBanner.isCustomizeMode
  \* ---- a call of interpolate(template, vars) --------------------------
  interp,           \* the last call, <<[template, vars, result]>> (<<>> before)
  \* ---- app.js: the results container and its renders ------------------
  resultsContainer, \* children of #curated-results: "skeleton", "grid", "error"
  currentCardData,  \* app.js: let currentCardData, as its length (0 for null)
  renders,          \* the displayResults() / arvy:language renders: [kind, n, pc]
  \* ---- the flat-key strings module ------------------------------------
  currentStrings,   \* let currentStrings: "null", "fallback" or a locale's bundle
  currentLocale,    \* let currentLocale
  initCalls         \* the initStrings() calls so far: [locale, pc]

trackerVars == <<enabled, consentChecked, eventQueue, uxTurns, unloadListeners,
                 dataLayer, transport, beacon, trackCalls, otherCalls, everQueued,
                 discarded, flushed, invalidCalls, lastCall>>

i18nVars == <<stringbankCache, loadingPromises, fetches, calls>>

bannerVars == <<bannerVisible, isCustomizeMode>>

appVars == <<storedConsent, booted, listening, analyticsEnabled, analytics,
             pendingImports, saveCalls, dispatched, callbacks, bannerVars>>

interpVars == <<interp>>

\* the variables of the parts added to the three above
renderVars == <<resultsContainer, currentCardData, renders>>

stringsVars == <<currentStrings, currentLocale, initCalls>>

restVars == <<interpVars, renderVars, stringsVars>>

vars == <<trackerVars, i18nVars, appVars, restVars>>

\* ---------------------------------------------------------------------------
\* Bounds
\* ---------------------------------------------------------------------------
MaxTracks == 2
MaxOtherCalls == 3
MaxI18nCalls == 2
MaxFetches == 2
MaxSaves == 2
MaxTemplateLen == 3
MaxRequests == 2

\* displayResults() calls and language re-renders in one run
MaxRenders == 3

\* initStrings() calls in one run
MaxInits == 3

\* ---------------------------------------------------------------------------
\* Event schema registry (analytics.js, ANALYTICS_EVENTS)
\* ---------------------------------------------------------------------------
ANALYTICS_EVENTS ==
  [ prompt_submitted  |-> {"persona", "language", "prompt_length_chars", "session_id"},
    results_displayed |-> {"persona", "language", "triad", "result_count", "session_id"},
    product_clicked   |-> {"persona", "sku_id", "card_position", "session_id"},
    refine_submitted  |-> {"persona", "language", "refinement_length_chars",
                           "turn_number", "session_id"},
    language_changed  |-> {"persona", "from_lang", "to_lang", "session_id"},
    consent_updated   |-> {"persona", "analytics_enabled", "session_id"},
    page_view         |-> {"persona", "page_path", "referrer", "session_id"},
    session_ended     |-> {"persona", "session_duration_seconds", "ux_turns",
                           "session_id"} ]

\* this.persona and this.sessionId, fixed by the constructor
persona == "ARVY"
sessionId == "sid-1"

\* Date.now() - this.sessionStart at the time of endSession(), in ms
ElapsedInputs == {0, 1500}

\* ---------------------------------------------------------------------------
\* Inputs of track(): event names and properties objects
\* ---------------------------------------------------------------------------
PropValue ==
  [ sku_id |-> "BQ-001", card_position |-> "1", page_path |-> "/",
    referrer |-> "", event |-> "product_clicked",
    prompt_length_chars |-> "12", ux_turns |-> "1" ]

MkProps(keys) == [k \in keys |-> PropValue[k]]

\* the (name, properties) pairs callers pass to track(): a complete event, an
\* event with its required properties missing, an event whose properties carry
\* a key of the base payload, and a name that app.js tracks but the registry
\* does not list
TrackInputs ==
  { <<"product_clicked", MkProps({"sku_id", "card_position"})>>,
    <<"product_clicked", MkProps({})>>,
    <<"page_view", MkProps({"event", "page_path", "referrer"})>>,
    <<"error_displayed", MkProps({})>> }

\* consent argument of init({consent}) / setConsent(consent):
\* undefined, {analytics: true}, {analytics: false}
ConsentInputs == {"undefined", "analytics_true", "analytics_false"}

\* !!(consent && consent.analytics)
ConsentAnalytics(consent) == consent = "analytics_true"

\* ---------------------------------------------------------------------------
\* The tracker object as a record, so that methods can call each other
\* ---------------------------------------------------------------------------
This ==
  [ enabled |-> enabled, consentChecked |-> consentChecked,
    eventQueue |-> eventQueue, uxTurns |-> uxTurns,
    unloadListeners |-> unloadListeners, dataLayer |-> dataLayer,
    transport |-> transport ]

\* one request to /api/analytics: navigator.sendBeacon(...) when it exists,
\* else fetch(..., {keepalive: true}).catch(() => {})
Request(id) ==
  [id |-> id, via |-> IF beacon THEN "sendBeacon" ELSE "fetch", caught |-> TRUE,
   status |-> "pending"]

\* variant: the request is issued a second time
sendTwice(s, name, payload, id) ==
  [s EXCEPT !.dataLayer = Append(@, [id |-> id, name |-> name, payload |-> payload]),
            !.transport = @ \o <<Request(id), Request(id)>>]

\* send(payload): push to window.dataLayer and hand to the transport
send(s, name, payload, id) ==
  [s EXCEPT !.dataLayer = Append(@, [id |-> id, name |-> name, payload |-> payload]),
            !.transport = Append(@, Request(id))]

\* { persona, event, timestamp, session_id, ...properties }
BasePayload(eventName) ==
  [ persona |-> persona, event |-> eventName, timestamp |-> "now",
    session_id |-> sessionId ]

BuildPayload(eventName, properties) ==
  LET base == BasePayload(eventName)
  IN [k \in (DOMAIN base) \cup (DOMAIN properties) |->
        IF k \in DOMAIN properties THEN properties[k] ELSE base[k]]

\* variant: the required-field filter finds nothing missing
MissingFieldsNone(eventName, payload) == {}

\* schema.required.filter(field => !(field in payload))
MissingFields(eventName, payload) ==
  {f \in ANALYTICS_EVENTS[eventName] : f \notin DOMAIN payload}

\* variant: with consent denied the event is queued instead of dropped
trackQueuesWhenDenied(s, eventName, properties, id) ==
  IF ~s.consentChecked \/ ~s.enabled
    THEN [s EXCEPT !.eventQueue =
            Append(@, [eventName |-> eventName, properties |-> properties, id |-> id])]
  ELSE IF eventName \notin DOMAIN ANALYTICS_EVENTS
    THEN s
  ELSE LET payload == BuildPayload(eventName, properties)
       IN IF MissingFields(eventName, payload) # {}
            THEN s
            ELSE send(s, eventName, payload, id)

\* track(eventName, properties); id is the caller's call number (history only)
track(s, eventName, properties, id) ==
  IF ~s.consentChecked
    THEN [s EXCEPT !.eventQueue =
            Append(@, [eventName |-> eventName, properties |-> properties, id |-> id])]
  ELSE IF ~s.enabled
    THEN s
  ELSE IF eventName \notin DOMAIN ANALYTICS_EVENTS
    THEN s
  ELSE LET payload == BuildPayload(eventName, properties)
       IN IF MissingFields(eventName, payload) # {}
            THEN s
            ELSE send(s, eventName, payload, id)

\* variant: the queue is iterated from its last entry to its first
RECURSIVE forEachTrackReversed(_, _)
forEachTrackReversed(s, q) ==
  IF q = <<>> THEN s
  ELSE forEachTrackReversed(
         track(s, q[Len(q)].eventName, q[Len(q)].properties, q[Len(q)].id),
         SubSeq(q, 1, Len(q) - 1))

\* this.eventQueue.forEach(({eventName, properties}) => this.track(...))
RECURSIVE forEachTrack(_, _)
forEachTrack(s, q) ==
  IF q = <<>> THEN s
  ELSE forEachTrack(track(s, Head(q).eventName, Head(q).properties, Head(q).id), Tail(q))

\* variant: a denial at init() leaves the queue as it is
initQueueKeepsOnDenial(s) ==
  IF s.enabled /\ Len(s.eventQueue) > 0
    THEN [forEachTrack(s, s.eventQueue) EXCEPT !.eventQueue = <<>>]
  ELSE s

\* the queue-processing branch of init()
initQueue(s) ==
  IF s.enabled /\ Len(s.eventQueue) > 0
    THEN [forEachTrack(s, s.eventQueue) EXCEPT !.eventQueue = <<>>]
  ELSE IF ~s.enabled
    THEN [s EXCEPT !.eventQueue = <<>>]
  ELSE s

\* init({consent})
init(s, consent) ==
  LET s1 == [s EXCEPT !.consentChecked = TRUE, !.enabled = ConsentAnalytics(consent)]
      s2 == initQueue(s1)
      s3 == IF s2.enabled
              THEN track(s2, "page_view", MkProps({"page_path", "referrer"}), 0)
              ELSE s2
  IN [s3 EXCEPT !.unloadListeners = @ + 1]

\* variant: the queue is processed but not emptied afterwards
setConsentGrantedKeepsQueue(s, wasEnabled) ==
  LET s1 == track(s, "consent_updated", [k \in {"analytics_enabled"} |-> "true"], 0)
  IN IF ~wasEnabled /\ Len(s1.eventQueue) > 0
       THEN forEachTrack(s1, s1.eventQueue)
       ELSE s1

\* the enabled branch of setConsent()
setConsentGranted(s, wasEnabled) ==
  LET s1 == track(s, "consent_updated", [k \in {"analytics_enabled"} |-> "true"], 0)
  IN IF ~wasEnabled /\ Len(s1.eventQueue) > 0
       THEN [forEachTrack(s1, s1.eventQueue) EXCEPT !.eventQueue = <<>>]
       ELSE s1

\* variant: a denial sends the final update whether or not analytics was on
setConsentDeniedAlwaysSends(s, wasEnabled) ==
  send([s EXCEPT !.eventQueue = <<>>], "consent_updated",
       [ persona |-> persona, event |-> "consent_updated",
         timestamp |-> "now", session_id |-> sessionId,
         analytics_enabled |-> "false" ], 0)

\* the else branch of setConsent()
setConsentDenied(s, wasEnabled) ==
  LET s1 == [s EXCEPT !.eventQueue = <<>>]
  IN IF wasEnabled
       THEN send(s1, "consent_updated",
                 [ persona |-> persona, event |-> "consent_updated",
                   timestamp |-> "now", session_id |-> sessionId,
                   analytics_enabled |-> "false" ], 0)
       ELSE s1

\* variant: setConsent() does not mark the consent as checked
setConsentLeavesUnchecked(s, consent) ==
  LET wasEnabled == s.enabled
      s1 == [s EXCEPT !.enabled = ConsentAnalytics(consent)]
  IN IF s1.enabled THEN setConsentGranted(s1, wasEnabled)
                   ELSE setConsentDenied(s1, wasEnabled)

\* setConsent(consent)
setConsent(s, consent) ==
  LET wasEnabled == s.enabled
      s1 == [s EXCEPT !.enabled = ConsentAnalytics(consent), !.consentChecked = TRUE]
  IN IF s1.enabled THEN setConsentGranted(s1, wasEnabled)
                   ELSE setConsentDenied(s1, wasEnabled)

\* Math.floor((Date.now() - this.sessionStart) / 1000), as a decimal string
Duration(elapsed) == ToString(elapsed \div 1000)

\* variant: ux_turns reports the page count instead of this.uxTurns
endSessionPagesAsTurns(s, elapsed) ==
  IF ~s.enabled THEN s
  ELSE track(s, "session_ended",
             [k \in {"session_duration_seconds", "pages_viewed", "ux_turns"} |->
                CASE k = "session_duration_seconds" -> Duration(elapsed)
                  [] OTHER -> "1"],
             0)

\* endSession()
endSession(s, elapsed) ==
  IF ~s.enabled THEN s
  ELSE track(s, "session_ended",
             [k \in {"session_duration_seconds", "pages_viewed", "ux_turns"} |->
                CASE k = "session_duration_seconds" -> Duration(elapsed)
                  [] k = "pages_viewed" -> "1"
                  [] OTHER -> ToString(s.uxTurns)],
             0)

\* incrementUXTurns()
incrementUXTurns(s) == [s EXCEPT !.uxTurns = @ + 1]

\* ---------------------------------------------------------------------------
\* Tracker actions
\* ---------------------------------------------------------------------------
QueueIds(q) == {q[i].id : i \in 1..Len(q)}

\* write the fields of the object back to the variables
Assign(s) ==
  /\ enabled' = s.enabled
  /\ consentChecked' = s.consentChecked
  /\ eventQueue' = s.eventQueue
  /\ uxTurns' = s.uxTurns
  /\ unloadListeners' = s.unloadListeners
  /\ dataLayer' = s.dataLayer
  /\ transport' = s.transport
  /\ beacon' = beacon

\* history bookkeeping of a consent decision (init or setConsent): the ids
\* queued at the time of a grant, and at the time of a denial
ConsentHistory(consent) ==
  /\ flushed' = IF ConsentAnalytics(consent)
                  THEN flushed \cup QueueIds(eventQueue) ELSE flushed
  /\ discarded' = IF ConsentAnalytics(consent)
                    THEN discarded ELSE discarded \cup QueueIds(eventQueue)

\* keys every payload built by track() has before the properties are merged
BaseKeys == {"persona", "event", "timestamp", "session_id"}

\* the caller's input names no registered event, or lacks a required property
InvalidInput(eventName, properties) ==
  \/ eventName \notin DOMAIN ANALYTICS_EVENTS
  \/ \E f \in ANALYTICS_EVENTS[eventName] : f \notin BaseKeys \cup DOMAIN properties

Track(eventName, properties) ==
  /\ trackCalls < MaxTracks
  /\ trackCalls' = trackCalls + 1
  /\ LET s == track(This, eventName, properties, trackCalls + 1)
     IN /\ Assign(s)
        /\ everQueued' = IF Len(s.eventQueue) > Len(eventQueue)
                           THEN Append(everQueued, s.eventQueue[Len(s.eventQueue)])
                           ELSE everQueued
  /\ invalidCalls' = IF InvalidInput(eventName, properties)
                       THEN invalidCalls \cup {trackCalls + 1} ELSE invalidCalls
  /\ lastCall' = "track"
  /\ UNCHANGED <<otherCalls, discarded, flushed>>
  /\ UNCHANGED <<i18nVars, appVars, restVars>>

InitTracker(consent) ==
  /\ otherCalls < MaxOtherCalls
  /\ otherCalls' = otherCalls + 1
  /\ LET s == init(This, consent)
     IN Assign(s) /\ ConsentHistory(consent)
  /\ lastCall' = "init"
  /\ UNCHANGED <<trackCalls, everQueued, invalidCalls>>
  /\ UNCHANGED <<i18nVars, appVars, restVars>>

SetConsent(consent) ==
  /\ otherCalls < MaxOtherCalls
  /\ otherCalls' = otherCalls + 1
  /\ LET s == setConsent(This, consent)
     IN Assign(s) /\ ConsentHistory(consent)
  /\ lastCall' = "setConsent"
  /\ UNCHANGED <<trackCalls, everQueued, invalidCalls>>
  /\ UNCHANGED <<i18nVars, appVars, restVars>>

EndSession(elapsed) ==
  /\ otherCalls < MaxOtherCalls
  /\ otherCalls' = otherCalls + 1
  /\ Assign(endSession(This, elapsed))
  /\ lastCall' = "endSession"
  /\ UNCHANGED <<trackCalls, everQueued, discarded, flushed, invalidCalls>>
  /\ UNCHANGED <<i18nVars, appVars, restVars>>

IncrementUXTurns ==
  /\ otherCalls < MaxOtherCalls
  /\ otherCalls' = otherCalls + 1
  /\ Assign(incrementUXTurns(This))
  /\ lastCall' = "incrementUXTurns"
  /\ UNCHANGED <<trackCalls, everQueued, discarded, flushed, invalidCalls>>
  /\ UNCHANGED <<i18nVars, appVars, restVars>>

\* the page runs in a browser that has no navigator.sendBeacon
LegacyBrowser ==
  /\ trackCalls = 0 /\ otherCalls = 0
  /\ beacon
  /\ beacon' = FALSE
  /\ UNCHANGED <<enabled, consentChecked, eventQueue, uxTurns, unloadListeners,
                 dataLayer, transport, trackCalls, otherCalls, everQueued,
                 discarded, flushed, invalidCalls, lastCall>>
  /\ UNCHANGED <<i18nVars, appVars, restVars>>

\* the request reaches the endpoint
TransportOk(i) ==
  /\ i <= Len(transport)
  /\ transport[i].status = "pending"
  /\ transport' = [transport EXCEPT ![i].status = "ok"]
  /\ UNCHANGED <<enabled, consentChecked, eventQueue, uxTurns, unloadListeners,
                 dataLayer, beacon, trackCalls, otherCalls, everQueued,
                 discarded, flushed, invalidCalls, lastCall>>
  /\ UNCHANGED <<i18nVars, appVars, restVars>>

\* the request fails: the beacon is lost, or the fetch promise rejects and
\* its .catch swallows the rejection
TransportFail(i) ==
  /\ i <= Len(transport)
  /\ transport[i].status = "pending"
  /\ transport' = [transport EXCEPT
                     ![i].status = IF transport[i].via = "fetch" /\ ~transport[i].caught
                                     THEN "unhandled" ELSE "failed"]
  /\ UNCHANGED <<enabled, consentChecked, eventQueue, uxTurns, unloadListeners,
                 dataLayer, beacon, trackCalls, otherCalls, everQueued,
                 discarded, flushed, invalidCalls, lastCall>>
  /\ UNCHANGED <<i18nVars, appVars, restVars>>

\* the state right after `new ARVYAMAnalytics()`
TrackerInit ==
  /\ enabled = FALSE
  /\ consentChecked = FALSE
  /\ eventQueue = <<>>
  /\ uxTurns = 0
  /\ unloadListeners = 0
  /\ dataLayer = <<>>
  /\ transport = <<>>
  /\ beacon = TRUE
  /\ trackCalls = 0
  /\ otherCalls = 0
  /\ everQueued = <<>>
  /\ discarded = {}
  /\ flushed = {}
  /\ invalidCalls = {}
  /\ lastCall = "constructor"

TrackerNext ==
  \/ \E in \in TrackInputs : Track(in[1], in[2])
  \/ \E c \in ConsentInputs : InitTracker(c)
  \/ \E c \in ConsentInputs : SetConsent(c)
  \/ \E elapsed \in ElapsedInputs : EndSession(elapsed)
  \/ IncrementUXTurns

\* the tracker together with its transport, driven by the calls that reach
\* send(): a complete event, a grant at init(), a change of consent, the end
\* of the session; calls are made until MaxRequests requests have been issued
SendTrack ==
  /\ Track("product_clicked", MkProps({"sku_id", "card_position"}))
  /\ Len(transport') <= MaxRequests

SendInit == InitTracker("analytics_true") /\ Len(transport') <= MaxRequests

SendSetConsent(c) == SetConsent(c) /\ Len(transport') <= MaxRequests

SendEndSession == EndSession(0) /\ Len(transport') <= MaxRequests

SendNext ==
  \/ SendTrack
  \/ SendInit
  \/ \E c \in {"analytics_true", "analytics_false"} : SendSetConsent(c)
  \/ SendEndSession
  \/ LegacyBrowser
  \/ \E i \in 1..MaxRequests : TransportOk(i)
  \/ \E i \in 1..MaxRequests : TransportFail(i)

\* ---------------------------------------------------------------------------
\* i18n/strings.js: bundles, keys and values
\* ---------------------------------------------------------------------------
\* A string is a sequence of tokens: literal text, or a {name} placeholder.
Lit(text) == [kind |-> "lit", text |-> text]
Ph(name) == [kind |-> "ph", text |-> name]
Str(tokens) == [type |-> "string", tokens |-> tokens]
Obj == [type |-> "object", tokens |-> <<>>]
Undefined == [type |-> "undefined", tokens |-> <<>>]

\* /locales/en/arvy_stringbank.json: a nested mapping, each node named by
\* the path that leads to it
EnBundle ==
  (<<"search">> :> Obj)
  @@ (<<"search", "placeholder">> :> Str(<<Lit("Describe the occasion")>>))
  @@ (<<"search", "title">> :> Str(<<Lit("Find a gift")>>))
  @@ (<<"intent">> :> Obj)
  @@ (<<"intent", "progress">> :>
        Str(<<Lit("Question "), Ph("current"), Lit(" of "), Ph("total")>>))

\* /locales/hi/arvy_stringbank.json
HiBundle ==
  (<<"search">> :> Obj)
  @@ (<<"search", "placeholder">> :> Str(<<Lit("avsar bataiye")>>))
  @@ (<<"intent">> :> Obj)
  @@ (<<"intent", "progress">> :>
        Str(<<Lit("prashn "), Ph("current"), Lit(" / "), Ph("total")>>))

Locales == {"en", "hi"}

\* a code outside SUPPORTED_LANGUAGES, and the keys the module's Maps can get
UnsupportedLocale == "xx"
LocaleCodes == Locales \cup {UnsupportedLocale}

Bundle(lang) == IF lang = "en" THEN EnBundle ELSE HiBundle

\* path.split('.') for the keys callers pass
SplitPath(key) ==
  CASE key = "search.placeholder" -> <<"search", "placeholder">>
    [] key = "search.title" -> <<"search", "title">>
    [] key = "intent.progress" -> <<"intent", "progress">>
    [] key = "missing.key" -> <<"missing", "key">>
    [] key = "search" -> <<"search">>
    [] OTHER -> <<key>>

\* the reduce step of getNestedValue: current?.[key]; `cur` is the path of
\* the current node, or <<"?">> once the value is undefined
RECURSIVE reduceGet(_, _, _)
reduceGet(bundle, cur, path) ==
  IF path = <<>> THEN cur
  ELSE LET next == Append(cur, Head(path))
       IN IF cur = <<"?">> THEN <<"?">>
          ELSE IF cur # <<>> /\ bundle[cur].type # "object" THEN <<"?">>
          ELSE IF next \in DOMAIN bundle THEN reduceGet(bundle, next, Tail(path))
          ELSE <<"?">>

\* getNestedValue(obj, path)
getNestedValue(bundle, key) ==
  LET at == reduceGet(bundle, <<>>, SplitPath(key))
  IN IF at = <<"?">> THEN Undefined
     ELSE IF at = <<>> THEN Obj
     ELSE bundle[at]

\* variant: a placeholder without a value is removed from the text
interpolateDropsUnmatched(template, tvars) ==
  IF template.type # "string" THEN template
  ELSE Str([i \in 1..Len(template.tokens) |->
             IF template.tokens[i].kind = "ph"
               THEN Lit(IF template.tokens[i].text \in DOMAIN tvars
                          THEN tvars[template.tokens[i].text] ELSE "")
               ELSE template.tokens[i]])

\* interpolate(template, vars)
interpolate(template, tvars) ==
  IF template.type # "string" THEN template
  ELSE Str([i \in 1..Len(template.tokens) |->
             IF template.tokens[i].kind = "ph" /\ template.tokens[i].text \in DOMAIN tvars
               THEN Lit(tvars[template.tokens[i].text])
               ELSE template.tokens[i]])

\* the key itself, returned as the text
KeyText(key) == Str(<<Lit(key)>>)

NoVars == [k \in {} |-> ""]
ProgressVars == [k \in {"current", "total"} |-> IF k = "current" THEN "1" ELSE "3"]

\* the (key, lang, vars) triples callers pass to t()
TInputs ==
  { <<"search.title", "hi", NoVars>>,
    <<"missing.key", "hi", NoVars>>,
    <<"search.title", "en", NoVars>>,
    <<"intent.progress", "hi", ProgressVars>>,
    <<"search.title", UnsupportedLocale, NoVars>> }

\* the triples passed to tSync()
TSyncInputs == { <<"search.title", "hi", NoVars>> }

\* the argument of preloadStringbanks(): app.js passes [currentLanguage, 'en']
PreloadInputs == { <<"hi", "en">> }

\* ---------------------------------------------------------------------------
\* loadStringbank, t, tSync, preloadStringbanks, clearCache
\* ---------------------------------------------------------------------------
\* the module state as a record
Module == [cache |-> stringbankCache, loading |-> loadingPromises, fetches |-> fetches]

\* variant: the in-flight map is not consulted
loadStringbankNoDedup(m, lang) ==
  IF m.cache[lang] # "none"
    THEN [m |-> m, kind |-> "value", data |-> m.cache[lang], fid |-> 0]
  ELSE LET fid == Len(m.fetches) + 1
       IN [m |-> [m EXCEPT !.fetches = Append(@, [lang |-> lang, status |-> "pending"]),
                           !.loading[lang] = fid],
           kind |-> "promise", data |-> "none", fid |-> fid]

\* variant: the cache is not consulted
loadStringbankNoCache(m, lang) ==
  IF m.loading[lang] # 0
    THEN [m |-> m, kind |-> "promise", data |-> "none", fid |-> m.loading[lang]]
  ELSE LET fid == Len(m.fetches) + 1
       IN [m |-> [m EXCEPT !.fetches = Append(@, [lang |-> lang, status |-> "pending"]),
                           !.loading[lang] = fid],
           kind |-> "promise", data |-> "none", fid |-> fid]

\* loadStringbank(lang): the new module state and what the caller gets, a
\* cached bundle or the promise of a fetch
loadStringbank(m, lang) ==
  IF m.cache[lang] # "none"
    THEN [m |-> m, kind |-> "value", data |-> m.cache[lang], fid |-> 0]
  ELSE IF m.loading[lang] # 0
    THEN [m |-> m, kind |-> "promise", data |-> "none", fid |-> m.loading[lang]]
  ELSE LET fid == Len(m.fetches) + 1
       IN [m |-> [m EXCEPT !.fetches = Append(@, [lang |-> lang, status |-> "pending"]),
                           !.loading[lang] = fid],
           kind |-> "promise", data |-> "none", fid |-> fid]

\* a call of t(), as started
NewCall(op, key, lang, tvars) ==
  [ op |-> op, key |-> key, lang |-> lang, vars |-> tvars, langs |-> <<>>,
    pc |-> "start", fid |-> 0, fids |-> {}, langLoad |-> "none", enLoad |-> "none",
    settled |-> "pending", value |-> Undefined ]

Resolve(c, v) == [c EXCEPT !.pc = "done", !.settled = "resolved", !.value = v]
Reject(c) == [c EXCEPT !.pc = "done", !.settled = "rejected"]

\* variant: the catch block of t() rethrows
tCatchRethrows(c) == Reject(c)

\* t(): catch (error) { return key; }
tCatch(c) == Resolve(c, KeyText(c.key))

\* variant: the English bundle is not consulted
tAfterEnSkipped(c, data) == Resolve(c, KeyText(c.key))

\* t() from the point where the English stringbank is available
tAfterEn(c, data) ==
  LET englishTranslation == getNestedValue(Bundle(data), c.key)
  IN IF englishTranslation # Undefined
       THEN Resolve(c, interpolate(englishTranslation, c.vars))
       ELSE Resolve(c, KeyText(c.key))

\* t() from the point where the requested stringbank is available; gives the
\* new module state and the new state of the call
tAfterLang(m, c, data) ==
  LET translation == getNestedValue(Bundle(data), c.key)
  IN IF translation # Undefined
       THEN [m |-> m, c |-> Resolve(c, interpolate(translation, c.vars))]
     ELSE IF c.lang # "en"
       THEN LET r == loadStringbank(m, "en")
            IN IF r.kind = "value"
                 THEN [m |-> r.m, c |-> tAfterEn([c EXCEPT !.enLoad = "cached"], r.data)]
                 ELSE [m |-> r.m,
                       c |-> [c EXCEPT !.pc = "awaitEn", !.fid = r.fid,
                                       !.enLoad = "pending"]]
     ELSE [m |-> m, c |-> Resolve(c, KeyText(c.key))]

\* t(key, lang, vars) up to its first await
tStart(m, key, lang, tvars) ==
  LET c == NewCall("t", key, lang, tvars)
      r == loadStringbank(m, lang)
  IN IF r.kind = "value"
       THEN tAfterLang(r.m, [c EXCEPT !.langLoad = "cached"], r.data)
       ELSE [m |-> r.m,
             c |-> [c EXCEPT !.pc = "awaitLang", !.fid = r.fid, !.langLoad = "pending"]]

\* t() resumed when the promise it awaits has settled
tResume(m, c) ==
  LET f == m.fetches[c.fid]
  IN IF c.pc = "awaitLang"
       THEN IF f.status = "ok"
              THEN tAfterLang(m, [c EXCEPT !.langLoad = "ok"], f.lang)
              ELSE [m |-> m, c |-> tCatch([c EXCEPT !.langLoad = "failed"])]
       ELSE IF f.status = "ok"
              THEN [m |-> m, c |-> tAfterEn([c EXCEPT !.enLoad = "ok"], f.lang)]
              ELSE [m |-> m, c |-> tCatch([c EXCEPT !.enLoad = "failed"])]

\* tSync(key, lang, vars)
tSync(m, key, lang, tvars) ==
  LET own == IF m.cache[lang] # "none"
               THEN getNestedValue(Bundle(m.cache[lang]), key) ELSE Undefined
      english == IF lang # "en" /\ m.cache["en"] # "none"
                   THEN getNestedValue(Bundle(m.cache["en"]), key) ELSE Undefined
  IN IF own # Undefined THEN interpolate(own, tvars)
     ELSE IF english # Undefined THEN interpolate(english, tvars)
     ELSE KeyText(key)

\* langs.map(lang => loadStringbank(lang)): the module state after the loads
\* and the fetches whose promises Promise.all waits for
RECURSIVE mapLoad(_, _, _)
mapLoad(m, langs, fids) ==
  IF langs = <<>> THEN [m |-> m, fids |-> fids]
  ELSE LET r == loadStringbank(m, Head(langs))
       IN mapLoad(r.m, Tail(langs), IF r.kind = "promise" THEN fids \cup {r.fid} ELSE fids)

\* ---------------------------------------------------------------------------
\* i18n actions
\* ---------------------------------------------------------------------------
AssignModule(m) ==
  /\ stringbankCache' = m.cache
  /\ loadingPromises' = m.loading
  /\ fetches' = m.fetches

TCall(key, lang, tvars) ==
  /\ Len(calls) < MaxI18nCalls
  /\ LET r == tStart(Module, key, lang, tvars)
     IN /\ Len(r.m.fetches) <= MaxFetches
        /\ AssignModule(r.m)
        /\ calls' = Append(calls, r.c)
  /\ UNCHANGED <<trackerVars, appVars, restVars>>

TResume(i) ==
  /\ i <= Len(calls)
  /\ calls[i].op = "t"
  /\ calls[i].pc \in {"awaitLang", "awaitEn"}
  /\ fetches[calls[i].fid].status # "pending"
  /\ LET r == tResume(Module, calls[i])
     IN /\ Len(r.m.fetches) <= MaxFetches
        /\ AssignModule(r.m)
        /\ calls' = [calls EXCEPT ![i] = r.c]
  /\ UNCHANGED <<trackerVars, appVars, restVars>>

TSyncCall(key, lang, tvars) ==
  /\ Len(calls) < MaxI18nCalls
  /\ calls' = Append(calls, Resolve(NewCall("tSync", key, lang, tvars),
                                    tSync(Module, key, lang, tvars)))
  /\ UNCHANGED <<stringbankCache, loadingPromises, fetches>>
  /\ UNCHANGED <<trackerVars, appVars, restVars>>

PreloadCall(langs) ==
  /\ Len(calls) < MaxI18nCalls
  /\ LET r == mapLoad(Module, langs, {})
         c == [NewCall("preload", "", "", NoVars) EXCEPT !.langs = langs]
     IN /\ Len(r.m.fetches) <= MaxFetches
        /\ AssignModule(r.m)
        /\ calls' = Append(calls,
                      IF r.fids = {} THEN Resolve(c, Undefined)
                      ELSE [c EXCEPT !.pc = "awaitAll", !.fids = r.fids])
  /\ UNCHANGED <<trackerVars, appVars, restVars>>

\* await Promise.all(...) settles: all fulfilled, or one rejected (caught)
PreloadResume(i) ==
  /\ i <= Len(calls)
  /\ calls[i].op = "preload"
  /\ calls[i].pc = "awaitAll"
  /\ \/ \A f \in calls[i].fids : fetches[f].status = "ok"
     \/ \E f \in calls[i].fids : fetches[f].status = "failed"
  /\ calls' = [calls EXCEPT ![i] = Resolve(@, Undefined)]
  /\ UNCHANGED <<stringbankCache, loadingPromises, fetches>>
  /\ UNCHANGED <<trackerVars, appVars, restVars>>

\* the fetch answers 2xx with a JSON body: the second .then runs; the server
\* has a /locales/<lang>/arvy_stringbank.json for the supported codes only
FetchOk(f) ==
  /\ f <= Len(fetches)
  /\ fetches[f].status = "pending"
  /\ fetches[f].lang \in Locales
  /\ fetches' = [fetches EXCEPT ![f].status = "ok"]
  /\ stringbankCache' = [stringbankCache EXCEPT ![fetches[f].lang] = fetches[f].lang]
  /\ loadingPromises' = [loadingPromises EXCEPT ![fetches[f].lang] = 0]
  /\ UNCHANGED calls
  /\ UNCHANGED <<trackerVars, appVars, restVars>>

\* variant: the .catch leaves the in-flight entry in place
FetchFailKeepsMarker(f) ==
  /\ f <= Len(fetches)
  /\ fetches[f].status = "pending"
  /\ fetches' = [fetches EXCEPT ![f].status = "failed"]
  /\ UNCHANGED <<stringbankCache, loadingPromises, calls>>
  /\ UNCHANGED <<trackerVars, appVars, restVars>>

\* the fetch fails (the response is not ok and the first .then throws,
\* response.json() rejects, or fetch itself rejects): the .catch runs and
\* rethrows
FetchFail(f) ==
  /\ f <= Len(fetches)
  /\ fetches[f].status = "pending"
  /\ fetches' = [fetches EXCEPT ![f].status = "failed"]
  /\ loadingPromises' = [loadingPromises EXCEPT ![fetches[f].lang] = 0]
  /\ UNCHANGED <<stringbankCache, calls>>
  /\ UNCHANGED <<trackerVars, appVars, restVars>>

\* clearCache()
ClearCache ==
  /\ stringbankCache' = [l \in LocaleCodes |-> "none"]
  /\ loadingPromises' = [l \in LocaleCodes |-> 0]
  /\ UNCHANGED <<fetches, calls>>
  /\ UNCHANGED <<trackerVars, appVars, restVars>>

\* the module state when strings.js has been evaluated
I18nInit ==
  /\ stringbankCache = [l \in LocaleCodes |-> "none"]
  /\ loadingPromises = [l \in LocaleCodes |-> 0]
  /\ fetches = <<>>
  /\ calls = <<>>

I18nNext ==
  \/ \E in \in TInputs : TCall(in[1], in[2], in[3])
  \/ \E i \in 1..MaxI18nCalls : TResume(i)
  \/ \E in \in TSyncInputs : TSyncCall(in[1], in[2], in[3])
  \/ \E langs \in PreloadInputs : PreloadCall(langs)
  \/ \E i \in 1..MaxI18nCalls : PreloadResume(i)
  \/ \E f \in 1..MaxFetches : FetchOk(f)
  \/ \E f \in 1..MaxFetches : FetchFail(f)
  \/ ClearCache

\* the operations the application uses: clearCache() is exported but no file
\* of the repository calls it
I18nRuntimeNext ==
  \/ \E in \in TInputs : TCall(in[1], in[2], in[3])
  \/ \E i \in 1..MaxI18nCalls : TResume(i)
  \/ \E in \in TSyncInputs : TSyncCall(in[1], in[2], in[3])
  \/ \E langs \in PreloadInputs : PreloadCall(langs)
  \/ \E i \in 1..MaxI18nCalls : PreloadResume(i)
  \/ \E f \in 1..MaxFetches : FetchOk(f)
  \/ \E f \in 1..MaxFetches : FetchFail(f)

\* ---------------------------------------------------------------------------
\* app.js and ConsentBanner: consent decisions and the loading of the tracker
\* ---------------------------------------------------------------------------
\* what localStorage holds under 'arvyam_consent' when the page loads
PersistedInputs == {"none", "analytics_true", "analytics_false"}

\* the analytics field of the record saveConsent() is called with
DecisionInputs == {"analytics_true", "analytics_false"}

\* what the writes of saveConsent() do: both succeed, localStorage.setItem
\* throws, or the assignment to document.cookie throws
WriteOutcomes == {"ok", "setItemThrows", "cookieThrows"}

\* the module state of app.js with the tracker it holds
App ==
  [ analyticsEnabled |-> analyticsEnabled, analytics |-> analytics,
    pendingImports |-> pendingImports, tracker |-> This ]

\* new ARVYAMAnalytics(): the fields of a fresh instance; the dataLayer and the
\* beforeunload listeners belong to the window, not to the instance
Constructor(s) ==
  [s EXCEPT !.enabled = FALSE, !.consentChecked = FALSE, !.eventQueue = <<>>,
            !.uxTurns = 0]

\* enableAnalytics(lang) up to its await import('./analytics.js')
enableAnalyticsStart(a) ==
  IF a.analyticsEnabled THEN a ELSE [a EXCEPT !.pendingImports = @ + 1]

\* enableAnalytics(lang) from the point where the import has resolved
enableAnalyticsResume(a) ==
  [a EXCEPT !.tracker = init(Constructor(@), "analytics_true"),
            !.analytics = "instance",
            !.analyticsEnabled = TRUE,
            !.pendingImports = @ - 1]

\* handleConsentChange(event), the consent-changed listener of app.js
handleConsentChange(a, consent) ==
  LET a1 == IF ConsentAnalytics(consent) /\ ~a.analyticsEnabled
              THEN enableAnalyticsStart(a) ELSE a
  IN IF a1.analyticsEnabled /\ a1.analytics # "null"
       THEN [a1 EXCEPT !.tracker = setConsent(@, consent)]
       ELSE a1

\* the onConsentChange callback app.js gives the ConsentBanner
onConsentChange(a, consent) ==
  IF ConsentAnalytics(consent) /\ ~a.analyticsEnabled
    THEN enableAnalyticsStart(a) ELSE a

AssignApp(a) ==
  /\ analyticsEnabled' = a.analyticsEnabled
  /\ analytics' = a.analytics
  /\ pendingImports' = a.pendingImports
  /\ Assign(a.tracker)

TrackerHistoryUnchanged ==
  UNCHANGED <<trackCalls, otherCalls, everQueued, discarded, flushed, invalidCalls>>

\* initializeConsentBanner(): getConsent() reads what an earlier visit left
\* in localStorage; without a record show() puts the banner up, with a record
\* that grants analytics the tracker is loaded
AppBoot(persisted) ==
  /\ ~booted
  /\ booted' = TRUE
  /\ storedConsent' = persisted
  /\ bannerVisible' = (persisted = "none")
  /\ AssignApp(IF ConsentAnalytics(persisted) /\ ~analyticsEnabled
                 THEN enableAnalyticsStart(App) ELSE App)
  /\ TrackerHistoryUnchanged
  /\ lastCall' = "initializeConsentBanner"
  /\ UNCHANGED <<listening, saveCalls, dispatched, callbacks, isCustomizeMode>>
  /\ UNCHANGED <<i18nVars, restVars>>

\* setupGlobalListeners(): window.addEventListener('consent-changed', ...)
SetupGlobalListeners ==
  /\ booted /\ ~listening
  /\ listening' = TRUE
  /\ UNCHANGED <<storedConsent, booted, analyticsEnabled, analytics,
                 pendingImports, saveCalls, dispatched, callbacks, bannerVars>>
  /\ UNCHANGED <<trackerVars, i18nVars, restVars>>

\* ConsentBanner.show(): nothing when a consent record is stored
show(visible) == IF storedConsent # "none" THEN visible ELSE TRUE

\* the consent:open-manage listener of app.js: consentBanner.openManageView(),
\* which is show() followed by handleCustomize() when the modal is there
OpenManageView ==
  /\ listening
  /\ bannerVisible' = show(bannerVisible)
  /\ isCustomizeMode' = (isCustomizeMode \/ show(bannerVisible))
  /\ lastCall' = "openManageView"
  /\ UNCHANGED <<storedConsent, booted, listening, analyticsEnabled, analytics,
                 pendingImports, saveCalls, dispatched, callbacks>>
  /\ UNCHANGED <<enabled, consentChecked, eventQueue, uxTurns, unloadListeners,
                 dataLayer, transport, beacon, trackCalls, otherCalls, everQueued,
                 discarded, flushed, invalidCalls>>
  /\ UNCHANGED <<i18nVars, restVars>>

\* a button of the visible banner is pressed (Accept All, Reject, Save
\* Preferences): ConsentBanner.saveConsent(consent), then hide().  In
\* saveConsent() everything after the first throwing write is skipped by the
\* try block, whose catch only logs
SaveConsent(consent, write) ==
  /\ bannerVisible
  /\ bannerVisible' = FALSE
  /\ isCustomizeMode' = FALSE
  /\ saveCalls < MaxSaves
  /\ saveCalls' = saveCalls + 1
  /\ storedConsent' = IF write = "setItemThrows" THEN storedConsent ELSE consent
  /\ IF write = "ok"
       THEN /\ dispatched' = Append(dispatched, consent)
            /\ callbacks' = Append(callbacks, consent)
            /\ AssignApp(onConsentChange(
                 IF listening THEN handleConsentChange(App, consent) ELSE App,
                 consent))
       ELSE /\ UNCHANGED <<dispatched, callbacks>>
            /\ AssignApp(App)
  /\ TrackerHistoryUnchanged
  /\ lastCall' = "saveConsent"
  /\ UNCHANGED <<booted, listening>>
  /\ UNCHANGED <<i18nVars, restVars>>

\* the dynamic import resolves and enableAnalytics() runs to its end
ImportDone ==
  /\ pendingImports > 0
  /\ AssignApp(enableAnalyticsResume(App))
  /\ TrackerHistoryUnchanged
  /\ lastCall' = "enableAnalytics"
  /\ UNCHANGED <<storedConsent, booted, listening, saveCalls, dispatched, callbacks,
                 bannerVars>>
  /\ UNCHANGED <<i18nVars, restVars>>

\* the dynamic import rejects: the catch of enableAnalytics() only warns
ImportFail ==
  /\ pendingImports > 0
  /\ pendingImports' = pendingImports - 1
  /\ UNCHANGED <<storedConsent, booted, listening, analyticsEnabled, analytics,
                 saveCalls, dispatched, callbacks, bannerVars>>
  /\ UNCHANGED <<trackerVars, i18nVars, restVars>>

\* the (name, properties) pairs of two trackEvent() call sites of app.js: the
\* search submission and the click on a result card
TrackEventInputs ==
  { <<"prompt_submitted", MkProps({"prompt_length_chars", "ux_turns"})>>,
    <<"product_clicked", MkProps({"sku_id", "card_position"})>> }

\* { event: `arvyam.${eventName}`, ...properties, language: currentLanguage }
FailSoftPayload(eventName, properties) ==
  [k \in {"event", "language"} \cup DOMAIN properties |->
     IF k = "language" THEN "en"
     ELSE IF k \in DOMAIN properties THEN properties[k]
     ELSE "arvyam." \o eventName]

\* trackEvent(eventName, properties)
trackEvent(a, eventName, properties, id) ==
  IF a.analyticsEnabled /\ a.analytics # "null"
    THEN [a EXCEPT !.tracker = track(@, eventName, properties, id)]
    ELSE [a EXCEPT !.tracker.dataLayer =
            Append(@, [id |-> id, name |-> "arvyam." \o eventName,
                       payload |-> FailSoftPayload(eventName, properties)])]

\* a handler calls trackEvent(): the submit handler of the search form and the
\* click handler of the cards are registered by the end of the initialisation,
\* in the same turn as setupGlobalListeners()
TrackEvent(eventName, properties) ==
  /\ listening
  /\ trackCalls < MaxTracks
  /\ trackCalls' = trackCalls + 1
  /\ AssignApp(trackEvent(App, eventName, properties, trackCalls + 1))
  /\ invalidCalls' = IF InvalidInput(eventName, properties)
                       THEN invalidCalls \cup {trackCalls + 1} ELSE invalidCalls
  /\ lastCall' = "trackEvent"
  /\ UNCHANGED <<otherCalls, everQueued, discarded, flushed>>
  /\ UNCHANGED <<storedConsent, booted, listening, saveCalls, dispatched, callbacks,
                 bannerVars>>
  /\ UNCHANGED <<i18nVars, restVars>>

\* the module state when app.js has been evaluated
AppInit ==
  /\ storedConsent = "none"
  /\ booted = FALSE
  /\ listening = FALSE
  /\ analyticsEnabled = FALSE
  /\ analytics = "null"
  /\ pendingImports = 0
  /\ saveCalls = 0
  /\ dispatched = <<>>
  /\ callbacks = <<>>
  /\ bannerVisible = FALSE
  /\ isCustomizeMode = FALSE

AppNext ==
  \/ \E persisted \in PersistedInputs : AppBoot(persisted)
  \/ SetupGlobalListeners
  \/ OpenManageView
  \/ \E in \in TrackEventInputs : TrackEvent(in[1], in[2])
  \/ \E consent \in DecisionInputs, write \in WriteOutcomes : SaveConsent(consent, write)
  \/ ImportDone
  \/ ImportFail

\* ---------------------------------------------------------------------------
\* interpolate(template, vars) on its own
\* ---------------------------------------------------------------------------
\* the pieces /\{(\w+)\}/g cuts a template into: text, and {name} placeholders
TemplateTokens == {Lit("Question "), Ph("current"), Ph("total")}

\* the string templates of up to MaxTemplateLen pieces
RECURSIVE TokenSeqs(_)
TokenSeqs(n) ==
  IF n = 0 THEN {<<>>}
  ELSE LET shorter == TokenSeqs(n - 1)
       IN shorter \cup {Append(q, k) : q \in {r \in shorter : Len(r) = n - 1},
                                        k \in TemplateTokens}

InterpolateTemplates == {Str(q) : q \in TokenSeqs(MaxTemplateLen)} \cup {Obj}

\* the vars objects: any subset of the placeholder names, with the values of
\* a number, or text that itself reads like a placeholder
InterpolateVars ==
  UNION {[names -> {"1", "{total}"}] : names \in SUBSET {"current", "total"}}

InterpolateCall(template, tvars) ==
  /\ interp' = << [template |-> template, vars |-> tvars,
                   result |-> interpolate(template, tvars)] >>
  /\ UNCHANGED <<trackerVars, i18nVars, appVars, renderVars, stringsVars>>

InterpolateInit == interp = <<>>

InterpolateNext ==
  \E template \in InterpolateTemplates, tvars \in InterpolateVars :
    InterpolateCall(template, tvars)

\* ---------------------------------------------------------------------------
\* app.js: displayResults(data) and the re-render of the arvy:language listener
\* ---------------------------------------------------------------------------
\* data.arrangements.length of the responses: short of a triad, a triad, more
ArrangementCounts == {2, 3, 4}

\* arrangements.slice(0, 3), as a length
slice3(n) == IF n < 3 THEN n ELSE 3

\* the result cards in the container: a grid holds three, a skeleton grid and
\* an error message hold none
CardCount ==
  3 * Cardinality({i \in 1..Len(resultsContainer) : resultsContainer[i] = "grid"})

\* showError(message): the container holds the message alone
showError == <<"error">>

\* displayResults(data) up to its 800 ms wait: the container is emptied and
\* the skeleton grid appended
DisplayResults(n) ==
  /\ Len(renders) < MaxRenders
  /\ resultsContainer' = <<"skeleton">>
  /\ renders' = Append(renders, [kind |-> "display", n |-> n, pc |-> "wait"])
  /\ UNCHANGED currentCardData
  /\ UNCHANGED <<trackerVars, i18nVars, appVars, interpVars, stringsVars>>

\* displayResults() after the wait: the container is emptied; with fewer than
\* three arrangements the error is shown, otherwise the cards are created and
\* the function waits for Promise.all(cardPromises)
DisplayAfterWait(i) ==
  /\ i <= Len(renders)
  /\ renders[i].kind = "display"
  /\ renders[i].pc = "wait"
  /\ IF slice3(renders[i].n) < 3
       THEN /\ currentCardData' = 0
            /\ resultsContainer' = showError
            /\ renders' = [renders EXCEPT ![i].pc = "done"]
       ELSE /\ resultsContainer' = <<>>
            /\ renders' = [renders EXCEPT ![i].pc = "cards"]
            /\ UNCHANGED currentCardData
  /\ UNCHANGED <<trackerVars, i18nVars, appVars, interpVars, stringsVars>>

\* the arvy:language listener past its awaits, with card data stored: the
\* container is emptied, the cards are created and the listener waits for
\* Promise.all(cardPromises)
LanguageRerender ==
  /\ Len(renders) < MaxRenders
  /\ currentCardData > 0
  /\ IF slice3(currentCardData) < 3
       THEN /\ currentCardData' = 0
            /\ resultsContainer' = showError
            /\ renders' = Append(renders, [kind |-> "language", n |-> currentCardData,
                                            pc |-> "done"])
       ELSE /\ resultsContainer' = <<>>
            /\ renders' = Append(renders, [kind |-> "language", n |-> currentCardData,
                                            pc |-> "cards"])
            /\ UNCHANGED currentCardData
  /\ UNCHANGED <<trackerVars, i18nVars, appVars, interpVars, stringsVars>>

\* Promise.all(cardPromises) settles (each card.render() awaits its t() calls)
\* with `valid` cards that are not null: other than three shows the error;
\* three are put in the grid and the grid is appended to the container, and
\* displayResults() stores the arrangements before that
CardsRendered(i, valid) ==
  /\ i <= Len(renders)
  /\ renders[i].pc = "cards"
  /\ renders' = [renders EXCEPT ![i].pc = "done"]
  /\ IF valid # 3
       THEN /\ currentCardData' = 0
            /\ resultsContainer' = showError
       ELSE /\ currentCardData' = IF renders[i].kind = "display"
                                    THEN slice3(renders[i].n) ELSE currentCardData
            /\ resultsContainer' = Append(resultsContainer, "grid")
  /\ UNCHANGED <<trackerVars, i18nVars, appVars, interpVars, stringsVars>>

\* the page before any search
RenderInit ==
  /\ resultsContainer = <<>>
  /\ currentCardData = 0
  /\ renders = <<>>

RenderNext ==
  \/ \E n \in ArrangementCounts : DisplayResults(n)
  \/ \E i \in 1..MaxRenders : DisplayAfterWait(i)
  \/ LanguageRerender
  \/ \E i \in 1..MaxRenders, valid \in {2, 3} : CardsRendered(i, valid)

\* ---------------------------------------------------------------------------
\* The flat-key strings module: initStrings(locale), and its callers
\* ---------------------------------------------------------------------------
\* locales initLanguage() can detect or be forced to
DetectedLocales == {"en", "hi", "ta"}

\* initStrings(locale) up to its await: currentLocale is set and
\* loadStringBank(locale) starts its fetch
initStrings(locale) ==
  /\ Len(initCalls) < MaxInits
  /\ currentLocale' = locale
  /\ initCalls' = Append(initCalls, [locale |-> locale, pc |-> "fetch"])
  /\ UNCHANGED currentStrings
  /\ UNCHANGED <<trackerVars, i18nVars, appVars, interpVars, renderVars>>

\* the module's own initStrings('en'), at the end of its evaluation and so
\* before any call of an importer
AutoInit ==
  /\ initCalls = <<>>
  /\ initStrings("en")

\* initLanguage(forceLocale) of the language detector, which imports the
\* strings module: initStrings(forceLocale || detectLanguage())
InitLanguage(locale) ==
  /\ initCalls # <<>>
  /\ initStrings(locale)

\* the fetch of loadStringBank() answers with the bundle: initStrings()
\* resumes and stores it
LoadOk(i) ==
  /\ i <= Len(initCalls)
  /\ initCalls[i].pc = "fetch"
  /\ initCalls' = [initCalls EXCEPT ![i].pc = "ok"]
  /\ currentStrings' = initCalls[i].locale
  /\ UNCHANGED currentLocale
  /\ UNCHANGED <<trackerVars, i18nVars, appVars, interpVars, renderVars>>

\* the fetch fails: loadStringBank() returns fallbackStrings, which
\* initStrings() stores
LoadFallback(i) ==
  /\ i <= Len(initCalls)
  /\ initCalls[i].pc = "fetch"
  /\ initCalls' = [initCalls EXCEPT ![i].pc = "failed"]
  /\ currentStrings' = "fallback"
  /\ UNCHANGED currentLocale
  /\ UNCHANGED <<trackerVars, i18nVars, appVars, interpVars, renderVars>>

\* the module's top-level declarations
StringsInit ==
  /\ currentStrings = "null"
  /\ currentLocale = "en"
  /\ initCalls = <<>>

StringsNext ==
  \/ AutoInit
  \/ \E locale \in DetectedLocales : InitLanguage(locale)
  \/ \E i \in 1..MaxInits : LoadOk(i)
  \/ \E i \in 1..MaxInits : LoadFallback(i)

Init ==
  TrackerInit /\ I18nInit /\ AppInit /\ InterpolateInit /\ RenderInit /\ StringsInit

Next == TrackerNext

Spec == Init /\ [][Next]_vars

SpecI18n == Init /\ [][I18nNext]_vars

SpecI18nRuntime == Init /\ [][I18nRuntimeNext]_vars

SpecApp == Init /\ [][AppNext]_vars

SpecSend == Init /\ [][SendNext]_vars

SpecInterpolate == Init /\ [][InterpolateNext]_vars

SpecRender == Init /\ [][RenderNext]_vars

SpecStrings == Init /\ [][StringsNext]_vars

\* ---------------------------------------------------------------------------
\* Properties of the tracker
\* ---------------------------------------------------------------------------
Ids(seq) == [i \in 1..Len(seq) |-> seq[i].id]

\* the deliveries of events that were in the queue when a grant drained it
FlushedDeliveries == SelectSeq(dataLayer, LAMBDA d : d.id \in flushed)

\* the track() calls behind those events that had a valid input, in call order
FlushedValidCalls ==
  SelectSeq(everQueued, LAMBDA e : e.id \in flushed /\ e.id \notin invalidCalls)

\* C1: the events queued while consent was undetermined are handed to send()
\* at the grant in exactly the order of their track() calls (those that fail
\* validation are dropped, the others keep their order).
C1_QueueFifo == Ids(FlushedDeliveries) = Ids(FlushedValidCalls)

C1_Witness ==
  /\ Len(FlushedDeliveries) >= 2
  /\ Cardinality(flushed) >= 2

C3_DenialClearsQueue ==
  \A i \in 1..Len(dataLayer) : dataLayer[i].id \notin discarded

C3_Witness ==
  /\ Cardinality(discarded) >= 2
  /\ enabled
  /\ lastCall = "setConsent"
  /\ Len(dataLayer) > 0

\* C4: with consent determined and denied, a track() call changes no field
\* of the tracker: nothing is queued and nothing is handed to send().
C4_DeniedTrackIsNoOp ==
  [][(consentChecked /\ ~enabled /\ trackCalls' = trackCalls + 1)
       => UNCHANGED <<enabled, consentChecked, eventQueue, uxTurns,
                      unloadListeners, dataLayer>>]_vars

C4_Witness ==
  /\ consentChecked /\ ~enabled
  /\ lastCall = "track"
  /\ trackCalls >= 2

\* C5: every queued event is consumed exactly once: no track() call is
\* delivered twice, and once consent has been decided the queue is empty and
\* each event that was queued has been flushed by a grant or discarded by a
\* denial, never both.
C5_ConsumedOnce ==
  /\ \A i, j \in 1..Len(dataLayer) :
       (i # j /\ dataLayer[i].id > 0) => dataLayer[i].id # dataLayer[j].id
  /\ consentChecked =>
       /\ eventQueue = <<>>
       /\ QueueIds(everQueued) = flushed \cup discarded
       /\ flushed \cap discarded = {}

C5_Witness ==
  /\ flushed # {}
  /\ \E i \in 1..Len(dataLayer) : dataLayer[i].id \in flushed
  /\ otherCalls = MaxOtherCalls
  /\ lastCall \in {"init", "setConsent"}
  /\ enabled

\* ---------------------------------------------------------------------------
\* Properties of the stringbank loader and of t()
\* ---------------------------------------------------------------------------
TCalls == {i \in 1..Len(calls) : calls[i].op = "t"}

PendingFetches(lang) ==
  {f \in 1..Len(fetches) : fetches[f].lang = lang /\ fetches[f].status = "pending"}

C7_OneFetchPerLocale ==
  \A l \in Locales : Cardinality(PendingFetches(l)) <= 1

\* C8: a t() call for a non-default locale whose bundle loaded returns that
\* bundle's value when it has the key, the 'en' value when only 'en' has the
\* key, and the key itself when neither has it.
C8_FallbackChain ==
  \A i \in TCalls :
    LET c == calls[i]
        p == SplitPath(c.key)
    IN (c.pc = "done" /\ c.lang # "en" /\ c.langLoad \in {"ok", "cached"}) =>
         /\ p \in DOMAIN Bundle(c.lang)
              => c.value = interpolate(Bundle(c.lang)[p], c.vars)
         /\ (p \notin DOMAIN Bundle(c.lang) /\ p \in DOMAIN EnBundle
               /\ c.enLoad \in {"ok", "cached"})
              => c.value = interpolate(EnBundle[p], c.vars)
         /\ (p \notin DOMAIN Bundle(c.lang) /\ p \notin DOMAIN EnBundle)
              => c.value = KeyText(c.key)

C8_Witness ==
  /\ \E i \in TCalls :
       /\ calls[i].pc = "done" /\ calls[i].lang = "hi" /\ calls[i].langLoad = "ok"
       /\ calls[i].key = "search.title" /\ calls[i].enLoad = "ok"
       /\ calls[i].value = Str(<<Lit("Find a gift")>>)
  /\ \E i \in TCalls :
       /\ calls[i].pc = "done" /\ calls[i].lang = "hi"
       /\ calls[i].key = "missing.key" /\ calls[i].enLoad \in {"ok", "cached"}
       /\ calls[i].value = KeyText("missing.key")

\* C9: when the fetch of the requested non-default locale fails, t() resolves
\* the key against the 'en' bundle and returns the 'en' value if 'en' has it.
C9_FailedLoadFallsBackToEn ==
  \A i \in TCalls :
    LET c == calls[i]
        p == SplitPath(c.key)
    IN (c.pc = "done" /\ c.lang # "en" /\ c.langLoad = "failed"
          /\ p \in DOMAIN EnBundle)
         => c.value = interpolate(EnBundle[p], c.vars)

\* C10: no t() and no preloadStringbanks() call ends rejected; a t() call
\* that met a failed load resolves with the key itself.
C10_NeverRejects ==
  \A i \in 1..Len(calls) :
    /\ calls[i].settled # "rejected"
    /\ calls[i].pc = "done" => calls[i].settled = "resolved"
    /\ (calls[i].op = "t" /\ calls[i].pc = "done"
          /\ (calls[i].langLoad = "failed" \/ calls[i].enLoad = "failed"))
         => calls[i].value = KeyText(calls[i].key)

C10_Witness ==
  /\ \E i \in TCalls :
       calls[i].pc = "done" /\ calls[i].settled = "resolved"
         /\ (calls[i].langLoad = "failed" \/ calls[i].enLoad = "failed")
  /\ \E i \in 1..Len(calls) :
       /\ calls[i].op = "preload" /\ calls[i].pc = "done"
       /\ calls[i].settled = "resolved"
       /\ \E f \in calls[i].fids : fetches[f].status = "failed"

\* ---------------------------------------------------------------------------
\* Properties of the tracker, continued
\* ---------------------------------------------------------------------------
\* C11: an event whose name is not in ANALYTICS_EVENTS is never in the
\* pending queue, whatever the consent state: every queued entry names a
\* registered event.
C11_UnknownNeverQueued ==
  \A i \in 1..Len(eventQueue) : eventQueue[i].eventName \in DOMAIN ANALYTICS_EVENTS

\* C14: init() called with no consent leaves the tracker undetermined and its
\* queue as it was, so later track() calls keep being queued; init() called
\* with a consent record leaves the undetermined state at once.
C14_NoRecordStaysUndetermined ==
  [][/\ (InitTracker("undefined") /\ ~consentChecked)
          => (~consentChecked' /\ eventQueue' = eventQueue)
     /\ \A c \in ConsentInputs \ {"undefined"} : InitTracker(c) => consentChecked']_vars

\* the one payload a denial may deliver
FinalConsentUpdate ==
  [ id |-> 0, name |-> "consent_updated",
    payload |-> [ persona |-> persona, event |-> "consent_updated",
                  timestamp |-> "now", session_id |-> sessionId,
                  analytics_enabled |-> "false" ] ]

\* C15: setConsent() with a denial empties the queue and delivers nothing
\* from it; it delivers exactly one consent_updated payload with
\* analytics_enabled false if analytics was enabled just before, and nothing
\* otherwise; and while the tracker stays disabled no step delivers anything.
C15_DenialDeliversOnlyFinalUpdate ==
  [][/\ \A c \in ConsentInputs :
          (~ConsentAnalytics(c) /\ SetConsent(c))
            => /\ eventQueue' = <<>>
               /\ ~enabled'
               /\ dataLayer' = IF enabled THEN Append(dataLayer, FinalConsentUpdate)
                                          ELSE dataLayer
     /\ (~enabled /\ ~enabled') => dataLayer' = dataLayer]_vars

\* a denial arrived while analytics was on and events were tracked after it
C15_Witness ==
  /\ consentChecked /\ ~enabled
  /\ lastCall \in {"track", "endSession"}
  /\ \E i \in 1..Len(dataLayer) : dataLayer[i] = FinalConsentUpdate
  /\ dataLayer[Len(dataLayer)] = FinalConsentUpdate

C17_PayloadIdentity ==
  \A i \in 1..Len(dataLayer) :
    /\ dataLayer[i].payload.persona = persona
    /\ dataLayer[i].payload.event = dataLayer[i].name
    /\ dataLayer[i].payload.session_id = sessionId

\* ---------------------------------------------------------------------------
\* Properties of the stringbank loader, continued
\* ---------------------------------------------------------------------------
\* C18: no fetch is ever issued for a locale code outside the supported set.
C18_NoFetchForUnsupported ==
  \A f \in 1..Len(fetches) : fetches[f].lang \in Locales

\* the fetches issued for a locale, and whether the latest of them failed
FetchesOf(lang) == {f \in 1..Len(fetches) : fetches[f].lang = lang}

LastFetchFailed(lang) ==
  /\ FetchesOf(lang) # {}
  /\ \E f \in FetchesOf(lang) :
       /\ fetches[f].status = "failed"
       /\ \A g \in FetchesOf(lang) : g <= f

C20_CachedServedWithoutFetch ==
  [][\A l \in LocaleCodes :
       stringbankCache[l] # "none" =>
         /\ \A f \in (Len(fetches) + 1)..Len(fetches') : fetches'[f].lang # l
         /\ stringbankCache'[l] = stringbankCache[l] \/ ClearCache
         /\ \A in \in TInputs :
              (in[2] = l /\ TCall(in[1], in[2], in[3]))
                => calls'[Len(calls')].langLoad = "cached"]_vars

\* two t() calls for a locale, the second served from the cache of the first
C20_Witness ==
  /\ Len(calls) = 2
  /\ calls[1].lang = "hi" /\ calls[1].langLoad = "ok"
  /\ calls[2].lang = "hi" /\ calls[2].langLoad = "cached"
  /\ stringbankCache["hi"] # "none"
  /\ FetchesOf("hi") = {1}

\* ---------------------------------------------------------------------------
\* Properties of the consent wiring of app.js
\* ---------------------------------------------------------------------------
\* C12: once no import is pending, the tracker's enabled flag equals the
\* analytics field of the current consent record, and is false when there is
\* no record.
C12_EnabledFollowsConsent ==
  (booted /\ pendingImports = 0) => (enabled = ConsentAnalytics(storedConsent))

\* C13: every saveConsent() call dispatches consent-changed and invokes the
\* onConsentChange callback with the new record, whether or not the writes
\* to localStorage and to the cookie succeed.
C13_StorageFailureStillNotifies ==
  [][\A consent \in DecisionInputs, write \in WriteOutcomes :
       SaveConsent(consent, write)
         => /\ dispatched' = Append(dispatched, consent)
            /\ callbacks' = Append(callbacks, consent)]_vars

C22_FireAndForget ==
  [][/\ Len(transport') = Len(dataLayer')
     /\ \A i \in 1..Len(transport') :
          /\ transport'[i].id = dataLayer'[i].id
          /\ transport'[i].status # "unhandled"
     /\ \A i \in 1..MaxRequests :
          TransportFail(i)
            => /\ Len(transport') = Len(transport)
               /\ UNCHANGED <<enabled, consentChecked, eventQueue, uxTurns,
                              unloadListeners, dataLayer>>]_vars

\* a fetch request failed in a browser without sendBeacon, and the tracker
\* went on to send a second payload
C22_Witness ==
  /\ ~beacon
  /\ Len(transport) = 2
  /\ transport[1].via = "fetch" /\ transport[1].status = "failed"
  /\ transport[2].status = "pending"
  /\ enabled

\* C23: consent never returns to undetermined: init() and setConsent() leave
\* consentChecked true, no later step makes it false, no track() call made
\* while it is true is queued, and the queue is empty whenever it is true.
C23_NeverBackToUndetermined ==
  [][/\ (\E c \in ConsentInputs : InitTracker(c) \/ SetConsent(c)) => consentChecked'
     /\ consentChecked => (consentChecked' /\ everQueued' = everQueued)
     /\ consentChecked' => eventQueue' = <<>>]_vars

\* events were queued, the consent was decided by setConsent(), and a track()
\* call came after the decision
C23_Witness ==
  /\ consentChecked
  /\ lastCall = "track"
  /\ everQueued # <<>>
  /\ eventQueue = <<>>
  /\ (flushed \cup discarded) # {}
  /\ trackCalls > Len(everQueued)

\* ---------------------------------------------------------------------------
\* Properties of trackEvent(), of the loading of the tracker and of the banner
\* ---------------------------------------------------------------------------
\* C24: while the stored consent is absent or denies analytics, a call of
\* trackEvent() puts nothing in window.dataLayer and sends nothing to
\* /api/analytics.
C24_TrackEventGated ==
  [][\A in \in TrackEventInputs :
       (TrackEvent(in[1], in[2]) /\ ~ConsentAnalytics(storedConsent))
         => UNCHANGED <<dataLayer, transport>>]_vars

\* C25: at most one tracker is constructed and initialised per page: at most
\* one beforeunload handler is registered and at most one page_view is sent.
C25_SingleTracker ==
  /\ unloadListeners <= 1
  /\ Cardinality({i \in 1..Len(dataLayer) : dataLayer[i].name = "page_view"}) <= 1

C28_PromptSubmittedDelivered ==
  [][(TrackEvent("prompt_submitted", MkProps({"prompt_length_chars", "ux_turns"}))
        /\ analyticsEnabled /\ enabled)
       => /\ Len(dataLayer') = Len(dataLayer) + 1
          /\ dataLayer'[Len(dataLayer')].name = "prompt_submitted"]_vars

\* ---------------------------------------------------------------------------
\* Properties of clearCache() against fetches already under way
\* ---------------------------------------------------------------------------
\* C27: a fetch that was started before a clearCache() (it is pending and is
\* no longer the in-flight entry of its locale) changes neither the cache nor
\* the in-flight map when it settles.
C27_ClearNotUndone ==
  [][\A f \in 1..MaxFetches :
       ((FetchOk(f) \/ FetchFail(f)) /\ loadingPromises[fetches[f].lang] # f)
         => UNCHANGED <<stringbankCache, loadingPromises>>]_vars

\* ---------------------------------------------------------------------------
\* Properties of the results container
\* ---------------------------------------------------------------------------
\* C29: whatever the overlap of displayResults() calls and language
\* re-renders, the container never holds more than three result cards; when
\* no render is in progress (and one has run) it holds exactly three cards or
\* an error message; currentCardData is null or holds exactly three
\* arrangements.
C29_TriadUnderOverlap ==
  /\ CardCount <= 3
  /\ (renders # <<>> /\ \A i \in 1..Len(renders) : renders[i].pc = "done")
       => resultsContainer \in {<<"grid">>, <<"error">>}
  /\ currentCardData \in {0, 3}

\* ---------------------------------------------------------------------------
\* Properties of the flat-key strings module
\* ---------------------------------------------------------------------------
\* C30: when every initStrings() call has settled, currentStrings is what a
\* load for currentLocale produced: that locale's bundle, or the built-in
\* fallback when a load for it failed.
C30_StringsMatchLocale ==
  (initCalls # <<>> /\ \A i \in 1..Len(initCalls) : initCalls[i].pc # "fetch")
    => \E i \in 1..Len(initCalls) :
         /\ initCalls[i].locale = currentLocale
         /\ currentStrings = IF initCalls[i].pc = "failed" THEN "fallback"
                              ELSE currentLocale

====
